---------------------------- MODULE Spec2Model ----------------------------
(***************************************************************************)
(* Model of the two structural extractors of scrapper.py:                  *)
(*   get_best_picture_nominations  (the wikitable scan)                    *)
(*   extract_plot_from_section     (the section walk)                      *)
(* Texts are TLA+ strings handled character by character, so that          *)
(* lower(), strip(), split(), replace(), isdigit(), "in" and urljoin are   *)
(* computed the way the Python code computes them.                         *)
(***************************************************************************)
EXTENDS Integers, Sequences, FiniteSets, TLC

VARIABLES tables, ti, ri, pc, current_year, movies, origin,
          soup, section_name, plot_section, current, plot_text, result, spc

\* tables .. movies: get_best_picture_nominations (ti, ri: the table and the row the
\* loops stand at; pc: the step); origin records, for each record of movies, the
\* table and row that gave it.  soup .. result: extract_plot_from_section (current:
\* the index of the sibling the walk stands at; spc: the step).
nvars == <<tables, ti, ri, pc, current_year, movies, origin>>
svars == <<soup, section_name, plot_section, current, plot_text, result, spc>>
vars == <<tables, ti, ri, pc, current_year, movies, origin,
          soup, section_name, plot_section, current, plot_text, result, spc>>

(***************************************************************************)
(* Python's None and a present value: <<>> and <<v>>.                      *)
(***************************************************************************)
None == <<>>
Some(v) == <<v>>

----------------------------------------------------------------------------
(* str primitives                                                          *)

Char(s, i) == SubSeq(s, i, i)

UpperCase == "ABCDEFGHIJKLMNOPQRSTUVWXYZ"
LowerCase == "abcdefghijklmnopqrstuvwxyz"

\* the characters of a string, as a set
CharsOf(s) == {Char(s, i) : i \in 1..Len(s)}

DigitChars == CharsOf("0123456789")
Whitespace == CharsOf(" \n\t")

\* str.lower() of each upper-case letter
ToLower ==
    [c \in CharsOf(UpperCase) |->
        Char(LowerCase, CHOOSE i \in 1..Len(UpperCase) : Char(UpperCase, i) = c)]

IsIn(c, alphabet) == c \in alphabet

\* str.lower() of one character
LowerChar(c) == IF c \in DOMAIN ToLower THEN ToLower[c] ELSE c

\* str.lower()
RECURSIVE Lower(_)
Lower(s) ==
    IF s = "" THEN "" ELSE LowerChar(Char(s, 1)) \o Lower(SubSeq(s, 2, Len(s)))

\* sub in s
Contains(s, sub) ==
    \E i \in 0..(Len(s) - Len(sub)) : SubSeq(s, i + 1, i + Len(sub)) = sub

\* s.startswith(p)
StartsWith(s, p) == Len(p) <= Len(s) /\ SubSeq(s, 1, Len(p)) = p

\* str.strip()
RECURSIVE LStrip(_)
LStrip(s) ==
    IF s # "" /\ IsIn(Char(s, 1), Whitespace) THEN LStrip(SubSeq(s, 2, Len(s))) ELSE s
RECURSIVE RStrip(_)
RStrip(s) ==
    IF s # "" /\ IsIn(Char(s, Len(s)), Whitespace)
    THEN RStrip(SubSeq(s, 1, Len(s) - 1)) ELSE s
Strip(s) == RStrip(LStrip(s))

\* ''.join(filter(str.isdigit, s))
RECURSIVE FilterDigits(_)
FilterDigits(s) ==
    IF s = "" THEN ""
    ELSE (IF IsIn(Char(s, 1), DigitChars) THEN Char(s, 1) ELSE "")
         \o FilterDigits(SubSeq(s, 2, Len(s)))

\* s.replace(c, '') for a one-character c
RECURSIVE RemoveChar(_, _)
RemoveChar(s, c) ==
    IF s = "" THEN ""
    ELSE (IF Char(s, 1) = c THEN "" ELSE Char(s, 1))
         \o RemoveChar(SubSeq(s, 2, Len(s)), c)

\* s.isdigit(): at least one character, and all of them digits
IsDigit(s) == s # "" /\ \A i \in 1..Len(s) : IsIn(Char(s, i), DigitChars)

\* s.split(sep) for a one-character sep
RECURSIVE Split(_, _)
Split(s, sep) ==
    IF \E i \in 1..Len(s) : Char(s, i) = sep
    THEN LET i == CHOOSE k \in 1..Len(s) :
                     /\ Char(s, k) = sep
                     /\ \A j \in 1..(k - 1) : Char(s, j) # sep
         IN <<SubSeq(s, 1, i - 1)>> \o Split(SubSeq(s, i + 1, Len(s)), sep)
    ELSE <<s>>

\* sep.join(parts)
RECURSIVE Join(_, _)
Join(parts, sep) ==
    IF parts = <<>> THEN ""
    ELSE IF Len(parts) = 1 THEN parts[1]
    ELSE parts[1] \o sep \o Join(Tail(parts), sep)

\* the concatenation of a sequence of strings
RECURSIVE Concat(_)
Concat(parts) == IF parts = <<>> THEN "" ELSE parts[1] \o Concat(Tail(parts))

\* the non-empty strings of a sequence, in order
RECURSIVE SelectStr(_)
SelectStr(parts) ==
    IF parts = <<>> THEN <<>>
    ELSE (IF parts[1] # "" THEN <<parts[1]>> ELSE <<>>) \o SelectStr(Tail(parts))

StripAll(parts) == [i \in 1..Len(parts) |-> Strip(parts[i])]

----------------------------------------------------------------------------
(* The document of get_best_picture_nominations.                           *)
(*   part  : a child of a data cell, [tag, text, href]: a string           *)
(*           (tag "text") or a link (tag "a", href None or Some(target))   *)
(*   cell  : a td, the sequence of its parts                               *)
(*   row   : a tr, [th |-> texts of its header cells, td |-> its cells]    *)
(*   block : a table.wikitable, [prev |-> texts of its previous sibling    *)
(*           elements, nearest first, caption |-> None or Some(text),      *)
(*           rows |-> its rows]                                            *)

\* Tag.get_text() of a data cell
CellText(cell) == Concat([i \in 1..Len(cell) |-> cell[i].text])

\* Tag.get_text(strip=True) of a data cell: every string stripped, empty ones dropped
CellTextStripped(cell) ==
    Concat(SelectStr(StripAll([i \in 1..Len(cell) |-> cell[i].text])))

\* Tag.get_text() of a row
RowText(row) ==
    Concat(row.th) \o Concat([i \in 1..Len(row.td) |-> CellText(row.td[i])])

stop_phrases ==
    << "Production companies and distributors with multiple nominations and wins",
       "production company",
       "distributor" >>

\* phrase.lower() for phrase in stop_phrases
lowered_stop_phrases == [k \in 1..Len(stop_phrases) |-> Lower(stop_phrases[k])]

\* any(phrase.lower() in text for phrase in stop_phrases)
AnyStopPhrase(text) ==
    \E k \in 1..Len(lowered_stop_phrases) : Contains(text, lowered_stop_phrases[k])

\* range(3): how many previous siblings are collected
PrevSiblingCount == 3

\* prev_elements: the table's previous siblings, at most PrevSiblingCount of them
PrevElements(block) ==
    SubSeq(block.prev, 1,
           IF Len(block.prev) < PrevSiblingCount THEN Len(block.prev)
           ELSE PrevSiblingCount)

\* should_stop
ShouldStop(block) ==
    \E k \in 1..Len(PrevElements(block)) : AnyStopPhrase(Lower(PrevElements(block)[k]))

\* the caption test
CaptionStops(block) ==
    block.caption # None /\ AnyStopPhrase(Lower(block.caption[1]))

\* mutant: the first row is tested against every stop phrase
FirstRowStopsAnyPhrase(block) ==
    /\ block.rows # <<>>
    /\ LET header_text == Lower(RowText(block.rows[1]))
       IN \/ AnyStopPhrase(header_text)
          \/ (Contains(header_text, "nominations") /\ Contains(header_text, "wins"))

\* the first-row test
FirstRowStops(block) ==
    /\ block.rows # <<>>
    /\ LET header_text == Lower(RowText(block.rows[1]))
       IN \/ Contains(header_text, "production company")
          \/ (Contains(header_text, "nominations") /\ Contains(header_text, "wins"))

\* year_text.split('\n')[0]
FirstLine(year_text) == Split(year_text, "\n")[1]

\* mutant: only the digits the first line starts with
YearPartsLeading(year_text) ==
    LET line == FirstLine(year_text)
        stop == {k \in 1..Len(line) : Char(line, k) \notin DigitChars}
    IN IF stop = {} THEN line
       ELSE SubSeq(line, 1, (CHOOSE k \in stop : \A m \in stop : k <= m) - 1)

\* year_parts
YearParts(year_text) == FilterDigits(FirstLine(year_text))

\* mutant: a row without a header cell forgets the year
NextYearResets(year, row) ==
    IF row.th # <<>>
    THEN LET year_parts == YearParts(Strip(row.th[1]))
         IN IF year_parts # "" /\ Len(year_parts) >= 4
            THEN Some(SubSeq(year_parts, 1, 4))
            ELSE year
    ELSE None

\* current_year after the header-cell test of one row
NextYear(year, row) ==
    IF row.th # <<>>
    THEN LET year_parts == YearParts(Strip(row.th[1]))
         IN IF year_parts # "" /\ Len(year_parts) >= 4
            THEN Some(SubSeq(year_parts, 1, 4))
            ELSE year
    ELSE year

\* mutant: the film is always looked for in the first cell
FilmCellFirst(cells) == cells[1]

\* film_cell, for a row with at least one data cell
FilmCell(cells) ==
    IF Len(cells) >= 2
    THEN LET first_cell_text == CellTextStripped(cells[1])
         IN IF /\ first_cell_text # ""
               /\ IsDigit(RemoveChar(RemoveChar(RemoveChar(first_cell_text, "/"), "("), ")"))
            THEN cells[2]
            ELSE cells[1]
    ELSE cells[1]

\* film_cell.find('a'): None or Some(the first link)
FirstLink(cell) ==
    IF \E i \in 1..Len(cell) : cell[i].tag = "a"
    THEN Some(cell[CHOOSE i \in 1..Len(cell) :
                      /\ cell[i].tag = "a"
                      /\ \A j \in 1..(i - 1) : cell[j].tag # "a"])
    ELSE None

\* the path of urljoin's result: dot segments resolved
RECURSIVE ResolveSegments(_, _)
ResolveSegments(segments, resolved_path) ==
    IF segments = <<>> THEN resolved_path
    ELSE LET seg == Head(segments)
         IN ResolveSegments(Tail(segments),
                IF seg = ".."
                THEN (IF resolved_path = <<>> THEN <<>>
                      ELSE SubSeq(resolved_path, 1, Len(resolved_path) - 1))
                ELSE IF seg = "." THEN resolved_path
                ELSE Append(resolved_path, seg))

BaseScheme == "https"
BaseNetloc == "en.wikipedia.org"

\* urljoin("https://en.wikipedia.org", url), for a url that starts with "/" and
\* holds no scheme, query, parameters or fragment (none of : ? ; #)
urljoin(url) ==
    LET segments == Split(url, "/")
        resolved == ResolveSegments(segments, <<>>)
        closed == IF segments[Len(segments)] \in {".", ".."}
                  THEN Append(resolved, "") ELSE resolved
        joined == Join(closed, "/")
        path == IF joined = "" THEN "/" ELSE joined
        rooted == IF StartsWith(path, "/") THEN path ELSE "/" \o path
    IN BaseScheme \o "://" \o BaseNetloc \o rooted

\* mutant: links into other namespaces are kept
RowRecordAnyNamespace(row, year) ==
    IF Len(row.td) = 0 THEN <<>>
    ELSE LET link == FirstLink(FilmCell(row.td))
         IN IF link = None THEN <<>>
            ELSE LET href == link[1].href
                     title == Strip(link[1].text)
                 IN IF href = None \/ href = Some("") \/ ~StartsWith(href[1], "/wiki/")
                    THEN <<>>
                    ELSE IF title # "" /\ urljoin(href[1]) # ""
                         THEN << [year |-> year, title |-> title,
                                  url |-> urljoin(href[1])] >>
                         ELSE <<>>

\* what one row appends to movies: <<>> or <<record>>
RowRecord(row, year) ==
    IF Len(row.td) = 0 THEN <<>>
    ELSE LET link == FirstLink(FilmCell(row.td))
         IN IF link = None THEN <<>>
            ELSE LET href == link[1].href
                     title == Strip(link[1].text)
                 IN IF href = None \/ href = Some("") \/ ~StartsWith(href[1], "/wiki/")
                    THEN <<>>
                    ELSE IF Contains(href[1], ":") THEN <<>>
                    ELSE IF title # "" /\ urljoin(href[1]) # ""
                         THEN << [year |-> year, title |-> title,
                                  url |-> urljoin(href[1])] >>
                         ELSE <<>>

----------------------------------------------------------------------------
(* get_best_picture_nominations, one action per step of the scan           *)

\* mutant: the stop test skips the table (continue) instead of ending the scan
CheckPrevSiblingsSkips ==
    /\ pc = "prev" /\ ti <= Len(tables)
    /\ IF ShouldStop(tables[ti])
       THEN ti' = ti + 1 /\ pc' = "prev"
       ELSE ti' = ti /\ pc' = "caption"
    /\ UNCHANGED <<tables, ri, current_year, movies, origin>>
    /\ UNCHANGED svars

\* for table in tables: the previous-sibling stop test
CheckPrevSiblings ==
    /\ pc = "prev" /\ ti <= Len(tables)
    /\ pc' = IF ShouldStop(tables[ti]) THEN "done" ELSE "caption"
    /\ UNCHANGED <<tables, ti, ri, current_year, movies, origin>>
    /\ UNCHANGED svars

\* the caption stop test
CheckCaption ==
    /\ pc = "caption"
    /\ pc' = IF CaptionStops(tables[ti]) THEN "done" ELSE "first_row"
    /\ UNCHANGED <<tables, ti, ri, current_year, movies, origin>>
    /\ UNCHANGED svars

\* mutant: current_year is not reset for a new table
CheckFirstRowKeepsYear ==
    /\ pc = "first_row"
    /\ IF FirstRowStops(tables[ti])
       THEN pc' = "done" /\ UNCHANGED <<ri, current_year>>
       ELSE pc' = "rows" /\ ri' = 1 /\ UNCHANGED current_year
    /\ UNCHANGED <<tables, ti, movies, origin>>
    /\ UNCHANGED svars

\* mutant: the first-row test skips the table (continue) instead of ending the scan
CheckFirstRowSkips ==
    /\ pc = "first_row"
    /\ IF FirstRowStops(tables[ti])
       THEN pc' = "prev" /\ ti' = ti + 1 /\ UNCHANGED <<ri, current_year>>
       ELSE pc' = "rows" /\ ti' = ti /\ ri' = 1 /\ current_year' = None
    /\ UNCHANGED <<tables, movies, origin>>
    /\ UNCHANGED svars

\* the first-row test, then rows = table.find_all('tr'); current_year = None
CheckFirstRow ==
    /\ pc = "first_row"
    /\ IF FirstRowStops(tables[ti])
       THEN pc' = "done" /\ UNCHANGED <<ri, current_year>>
       ELSE pc' = "rows" /\ ri' = 1 /\ current_year' = None
    /\ UNCHANGED <<tables, ti, movies, origin>>
    /\ UNCHANGED svars

\* one pass of "for row in rows"
ProcessRow ==
    /\ pc = "rows" /\ ri <= Len(tables[ti].rows)
    /\ LET row == tables[ti].rows[ri]
           year == NextYear(current_year, row)
           found == RowRecord(row, year)
       IN /\ current_year' = year
          /\ movies' = movies \o found
          /\ origin' = origin \o [k \in 1..Len(found) |-> <<ti, ri>>]
    /\ ri' = ri + 1
    /\ UNCHANGED <<tables, ti, pc>>
    /\ UNCHANGED svars

\* the rows of the table are exhausted: on to the next table
EndTable ==
    /\ pc = "rows" /\ ri > Len(tables[ti].rows)
    /\ ti' = ti + 1
    /\ pc' = "prev"
    /\ UNCHANGED <<tables, ri, current_year, movies, origin>>
    /\ UNCHANGED svars

\* the tables are exhausted: return movies
Return ==
    /\ pc = "prev" /\ ti > Len(tables)
    /\ pc' = "done"
    /\ UNCHANGED <<tables, ti, ri, current_year, movies, origin>>
    /\ UNCHANGED svars

----------------------------------------------------------------------------
(* The documents the scan is run on.                                       *)

Txt(s) == [tag |-> "text", text |-> s, href |-> None]
Link(h, t) == [tag |-> "a", text |-> t, href |-> h]

MaxBlocks == 3
MaxYearRows == 3
MaxCells == 3
MaxLinkTables == 2

\* sequences over S of length lo..hi
SeqsOf(S, lo, hi) == UNION {[1..n -> S] : n \in lo..hi}

FilmOK == <<Link(Some("/wiki/Wings"), "Wings")>>
Producer == <<Txt("Producer")>>

\* header cells of year rows
ThTexts ==
    {"1990", " 1991 (64th) ", "20 (83rd)", "83rd 2010", "19\n92", "199", "Year"}

YearRowSet ==
    {[th |-> <<t>>, td |-> <<FilmOK, Producer>>] : t \in ThTexts}
    \cup {[th |-> <<>>, td |-> <<FilmOK, Producer>>],
          [th |-> <<"1993">>, td |-> <<>>]}

\* one table whose rows carry header cells of every kind
DocsYear ==
    {<<[prev |-> <<"Winners and nominees">>, caption |-> None, rows |-> rows]>> :
        rows \in SeqsOf(YearRowSet, 1, MaxYearRows)}

CellSet ==
    {FilmOK, Producer,
     <<Txt("1995")>>, <<Txt(" (1927/28) ")>>, <<Txt("()")>>, <<Txt("")>>,
     <<Txt("1995a")>>,
     <<Link(Some("/wiki/1917_(2019_film)"), "1917")>>,
     <<Txt("19"), Link(Some("/wiki/95"), " 95 ")>>}

\* one table of one row whose data cells are of every kind
DocsCells ==
    {<<[prev |-> <<>>, caption |-> None,
        rows |-> <<[th |-> <<"1995">>, td |-> cells]>>]>> :
        cells \in SeqsOf(CellSet, 0, MaxCells)}

LinkCellSet ==
    {FilmOK, Producer,
     <<Link(Some("/wiki/Category:Films"), "Films")>>,
     <<Link(Some("/w/index.php"), "Edit")>>,
     <<Link(Some(""), "Empty")>>,
     <<Link(None, "Anchor")>>,
     <<Link(Some("/wiki/Untitled"), " ")>>,
     <<Link(Some("#cite_note-1"), "[1]"), Link(Some("/wiki/Second"), "Second")>>,
     <<Txt(" "), Link(Some("/wiki/First"), " First "), Link(Some("/wiki/File:x"), "x")>>,
     <<Link(Some("/wiki/../Main_Page"), "Main")>>,
     <<Link(Some("/wiki/./Dot"), "Dot")>>,
     <<Link(Some("/wiki/"), "Root")>>}

\* tables of one-cell rows whose links are of every kind
DocsLinks ==
    {[b \in 1..Len(cs) |->
        [prev |-> <<>>, caption |-> None,
         rows |-> <<[th |-> <<>>, td |-> <<cs[b]>>], [th |-> <<>>, td |-> <<FilmOK>>]>>]] :
        cs \in SeqsOf(LinkCellSet, 1, MaxLinkTables)}

BaseContext ==
    [prev |-> <<"Winners and nominees">>, caption |-> None,
     header |-> Some(<<"Year", "Film", "Producer(s)">>)]

\* [prev, caption, header]: header is None for a table with no row at all
ContextSet ==
    {BaseContext}
    \cup {[BaseContext EXCEPT !.prev = p] :
            p \in {<<>>,
                   <<"Notes", "By Production Company">>,
                   <<"Notes", "Nominees", "Distributors">>,
                   <<"Notes", "Nominees", "Winners", "Distributors">>,
                   <<"Production companies and distributors with multiple nominations and wins">>}}
    \cup {[BaseContext EXCEPT !.caption = Some(c)] :
            c \in {"Best Picture nominees", "Films by Distributor"}}
    \cup {[BaseContext EXCEPT !.header = h] :
            h \in {Some(<<"Production company", "Films">>),
                   Some(<<"Studio", "Nominations", "Wins">>),
                   Some(<<"Distributor", "Films">>),
                   Some(<<"Film", "Nominations">>),
                   None}}

\* a table in a given context: its header row, then one film row
ContextBlock(ctx, th) ==
    [prev |-> ctx.prev, caption |-> ctx.caption,
     rows |-> IF ctx.header = None THEN <<>>
              ELSE <<[th |-> ctx.header[1], td |-> <<>>],
                     [th |-> th, td |-> <<FilmOK, Producer>>]>>]

BlockSet ==
    {ContextBlock(ctx, <<"1990">>) : ctx \in ContextSet}
    \cup {ContextBlock(BaseContext, <<>>)}

\* the tables that longer documents are made of: a nomination table with and
\* without a year cell, and one table for each test that can end the scan
CoreBlockSet ==
    {ContextBlock(BaseContext, <<"1990">>),
     ContextBlock(BaseContext, <<>>),
     ContextBlock([BaseContext EXCEPT !.prev = <<"Notes", "Nominees", "Distributors">>],
                  <<"1990">>),
     ContextBlock([BaseContext EXCEPT !.caption = Some("Films by Distributor")], <<"1990">>),
     ContextBlock([BaseContext EXCEPT !.header = Some(<<"Studio", "Nominations", "Wins">>)],
                  <<"1990">>),
     ContextBlock([BaseContext EXCEPT !.header = Some(<<"Distributor", "Films">>)],
                  <<"1990">>)}

\* two tables in contexts of every kind, and longer runs of the core tables
DocsBlocks ==
    {<<a, b>> : a \in BlockSet, b \in BlockSet}
    \cup SeqsOf(CoreBlockSet, 1, MaxBlocks)

Docs == DocsYear \cup DocsCells \cup DocsLinks \cup DocsBlocks

Init ==
    /\ tables \in Docs
    /\ ti = 1 /\ ri = 1 /\ pc = "prev"
    /\ current_year = None
    /\ movies = <<>> /\ origin = <<>>
    /\ soup = <<>> /\ section_name = "" /\ plot_section = None /\ current = 0
    /\ plot_text = <<>> /\ result = None /\ spc = "idle"

Next ==
    \/ CheckPrevSiblings
    \/ CheckCaption
    \/ CheckFirstRow
    \/ ProcessRow
    \/ EndTable
    \/ Return

Spec == Init /\ [][Next]_vars

----------------------------------------------------------------------------
(* The document of extract_plot_from_section: soup is the sequence of the   *)
(* top-level elements, each [name, class, strings, children]; a div holds   *)
(* child elements, every other element the strings of its text.  A position *)
(* <<i, 0>> is top-level element i, <<i, j>> is child j of top-level div i. *)

Leaf(name, strings) ==
    [name |-> name, class |-> {}, strings |-> strings, children |-> <<>>]
Div(class, children) ==
    [name |-> "div", class |-> class, strings |-> <<>>, children |-> children]

\* Tag.get_text()
ElemText(e) ==
    Concat(e.strings) \o Concat([k \in 1..Len(e.children) |-> Concat(e.children[k].strings)])

\* Tag.get_text(separator=' ', strip=True)
ElemTextSeparated(e) == Join(SelectStr(StripAll(e.strings)), " ")

ElemAt(doc, pos) == IF pos[2] = 0 THEN doc[pos[1]] ELSE doc[pos[1]].children[pos[2]]

\* the elements find_next_sibling walks over: the siblings of the element at pos
SiblingsOf(doc, pos) == IF pos[2] = 0 THEN doc ELSE doc[pos[1]].children
IndexOf(pos) == IF pos[2] = 0 THEN pos[1] ELSE pos[2]

\* soup.find_all(['div', 'h2', 'h3']): the positions, in document order
RECURSIVE FindAll(_, _)
FindAll(doc, i) ==
    IF i > Len(doc) THEN <<>>
    ELSE (IF doc[i].name \in {"div", "h2", "h3"} THEN <<<<i, 0>>>> ELSE <<>>)
         \o SelectSeq([j \in 1..Len(doc[i].children) |-> <<i, j>>],
                      LAMBDA q : doc[i].children[q[2]].name \in {"div", "h2", "h3"})
         \o FindAll(doc, i + 1)

\* the test of the search loop on one element
IsSectionHeading(e, name) ==
    IF e.name = "div" /\ "mw-heading" \in e.class
    THEN Contains(Lower(ElemText(e)), Lower(name))
    ELSE /\ e.name \in {"h2", "h3"}
         /\ Contains(Lower(ElemText(e)), Lower(name))

\* plot_section: None, or Some(position of the first heading found)
FindSection(doc, name) ==
    LET found == SelectSeq(FindAll(doc, 1), LAMBDA q : IsSectionHeading(ElemAt(doc, q), name))
    IN IF found = <<>> THEN None ELSE Some(found[1])

\* current.find('h2')
FindH2(e) == \E k \in 1..Len(e.children) : e.children[k].name = "h2"

\* mutant: a level-3 heading breaks the walk too
IsMainSectionOrSub(e) ==
    \/ (e.name = "div" /\ "mw-heading" \in e.class)
    \/ e.name \in {"h2", "h3"}

\* mutant: only a bare h2 breaks the walk
IsMainSectionBare(e) == e.name = "h2"

\* the two tests that break the walk
IsMainSection(e) ==
    \/ (e.name = "div" /\ "mw-heading" \in e.class /\ FindH2(e))
    \/ e.name = "h2"

\* what one element appends to plot_text
ParagraphText(e) ==
    IF e.name = "p" /\ ElemTextSeparated(e) # "" THEN <<ElemTextSeparated(e)>> ELSE <<>>

\* the search for the heading
FindHeading ==
    /\ spc = "find"
    /\ plot_section' = FindSection(soup, section_name)
    /\ IF plot_section' = None
       THEN spc' = "done" /\ result' = None /\ UNCHANGED current
       ELSE spc' = "walk" /\ current' = IndexOf(plot_section'[1]) + 1 /\ UNCHANGED result
    /\ UNCHANGED <<soup, section_name, plot_text>>
    /\ UNCHANGED nvars

\* one pass of "while current"
WalkStep ==
    /\ spc = "walk"
    /\ LET siblings == SiblingsOf(soup, plot_section[1])
       IN IF current > Len(siblings) \/ IsMainSection(siblings[current])
          THEN spc' = "return" /\ UNCHANGED <<current, plot_text>>
          ELSE /\ plot_text' = plot_text \o ParagraphText(siblings[current])
               /\ current' = current + 1
               /\ UNCHANGED spc
    /\ UNCHANGED <<soup, section_name, plot_section, result>>
    /\ UNCHANGED nvars

\* return ' '.join(plot_text) if plot_text else None
ReturnPlot ==
    /\ spc = "return"
    /\ result' = IF plot_text # <<>> THEN Some(Join(plot_text, " ")) ELSE None
    /\ spc' = "done"
    /\ UNCHANGED <<soup, section_name, plot_section, current, plot_text>>
    /\ UNCHANGED nvars

(* The documents the section is looked for in.                             *)

MaxBody == 4
MaxSearch == 3

P1 == Leaf("p", <<"A ", "b">>)
P2 == Leaf("p", <<" c\n">>)
P0 == Leaf("p", <<" ", "\n">>)
H2Cast == Leaf("h2", <<"Cast">>)
H3Cast == Leaf("h3", <<"Cast">>)
DivH2Cast == Div({"mw-heading", "mw-heading2"}, <<Leaf("h2", <<"Cast">>)>>)
DivH3Cast == Div({"mw-heading", "mw-heading3"}, <<Leaf("h3", <<"Cast">>)>>)

HeadingSet ==
    {Leaf("h2", <<"Plot">>),
     Leaf("h3", <<"Plot summary">>),
     Div({"mw-heading", "mw-heading2"}, <<Leaf("h2", <<"Plot">>), Leaf("span", <<"[edit]">>)>>),
     Div({"mw-heading", "mw-heading3"}, <<Leaf("h3", <<"PLOT">>)>>)}

BodySet == {P1, P2, P0, H2Cast, H3Cast, DivH2Cast, DivH3Cast}

\* a heading named Plot, then siblings of every kind
DocsWalk ==
    {[soup |-> <<h>> \o body, section_name |-> "Plot"] :
        h \in HeadingSet, body \in SeqsOf(BodySet, 0, MaxBody)}

SearchSet ==
    {P1, H2Cast,
     Leaf("h3", <<"Plot">>),
     Div({"mw-heading", "mw-heading2"}, <<Leaf("h2", <<"Synopsis">>)>>),
     Div({"navbox"}, <<Leaf("p", <<"Plot links">>)>>),
     Div({"section"}, <<Leaf("h2", <<"Plot synopsis">>), P2, Leaf("h2", <<"Cast">>), P1>>)}

\* elements of every kind, searched under several names
DocsSearch ==
    {[soup |-> doc, section_name |-> name] :
        doc \in SeqsOf(SearchSet, 0, MaxSearch), name \in {"Plot", "plot", "Synopsis"}}

InitSection ==
    /\ \E d \in DocsWalk \cup DocsSearch : soup = d.soup /\ section_name = d.section_name
    /\ plot_section = None /\ current = 0
    /\ plot_text = <<>> /\ result = None /\ spc = "find"
    /\ tables = <<>> /\ ti = 1 /\ ri = 1 /\ pc = "idle"
    /\ current_year = None /\ movies = <<>> /\ origin = <<>>

NextSection ==
    \/ FindHeading
    \/ WalkStep
    \/ ReturnPlot

SpecSection == InitSection /\ [][NextSection]_vars

----------------------------------------------------------------------------
(* Vocabulary of the properties.  origin[i] = <<t, r>> says that movies[i]  *)
(* was appended while row r of table t was processed.                      *)

HasRecord(t, r) == \E i \in 1..Len(origin) : origin[i] = <<t, r>>
RecordOf(t, r) == movies[CHOOSE i \in 1..Len(origin) : origin[i] = <<t, r>>]
NoRecordFrom(k) == \A i \in 1..Len(origin) : origin[i][1] < k

\* the scan has returned / has returned after visiting every table
Returned == pc = "done"
ReturnedAtEnd == pc = "done" /\ ti > Len(tables)

\* text contains the (lower-case) phrase, case-insensitively
HasPhrase(text, phrase) == Contains(Lower(text), phrase)
HasAnyStopPhrase(text) ==
    LET t == Lower(text)
    IN \/ Contains(t, "production company")
       \/ Contains(t, "distributor")
       \/ Contains(t, "production companies and distributors with multiple nominations and wins")

\* one of the (up to 3) immediately preceding siblings holds a stop phrase
HeadingStops(block) ==
    \E j \in 1..Len(block.prev) : j <= 3 /\ HasAnyStopPhrase(block.prev[j])
CaptionHasStopPhrase(block) ==
    block.caption # None /\ HasAnyStopPhrase(block.caption[1])
FirstRowHas(block, phrase) ==
    block.rows # <<>> /\ HasPhrase(RowText(block.rows[1]), phrase)
\* the first row names both a nomination count and a win count
Aggregate(block) == FirstRowHas(block, "nominations") /\ FirstRowHas(block, "wins")

\* the first link of a cell is an article link with a title
ArticleLink(cell) ==
    /\ FirstLink(cell) # None
    /\ LET a == FirstLink(cell)[1]
       IN /\ a.href # None
          /\ StartsWith(a.href[1], "/wiki/")
          /\ ~Contains(a.href[1], ":")
          /\ Strip(a.text) # ""

\* row r of block would give a record if it were reached
GivesRecord(block, r) ==
    block.rows[r].td # <<>> /\ ArticleLink(FilmCell(block.rows[r].td))

\* C1: once a table's preceding heading holds a stop phrase, the returned list holds
\* no record of that table or of a later one, and every table before the first such
\* table, when no test has ended the scan before it, gives all its records.
C1_StopPhraseTermination ==
    Returned =>
        \A k \in 1..Len(tables) :
            (HeadingStops(tables[k]) /\ \A b \in 1..(k - 1) : ~HeadingStops(tables[b]))
            => /\ NoRecordFrom(k)
               /\ \A b \in 1..(k - 1) :
                    (\A c \in 1..b : ~CaptionStops(tables[c]) /\ ~FirstRowStops(tables[c]))
                    => \A r \in 1..Len(tables[b].rows) :
                          GivesRecord(tables[b], r) => HasRecord(b, r)

\* C1 witness: the scan returned at table 3, whose heading stops it, with the records
\* of tables 1 and 2 and although table 3 has a film row
C1_Witness ==
    /\ Returned /\ Len(tables) >= 3 /\ ti = 3
    /\ HeadingStops(tables[3])
    /\ GivesRecord(tables[3], 2)
    /\ HasRecord(1, 2) /\ HasRecord(2, 2)

\* the first line of a header cell's stripped text
HeaderLine(text) ==
    LET t == Strip(text)
        cut == {k \in 1..Len(t) : Char(t, k) = "\n"}
    IN IF cut = {} THEN t
       ELSE SubSeq(t, 1, (CHOOSE k \in cut : \A m \in cut : k <= m) - 1)

\* every digit of s, in order / the run of digits s starts with
AllDigitsOf(s) == FilterDigits(s)
LeadingDigitsOf(s) ==
    LET stop == {k \in 1..Len(s) : Char(s, k) \notin DigitChars}
    IN IF stop = {} THEN s
       ELSE SubSeq(s, 1, (CHOOSE k \in stop : \A m \in stop : k <= m) - 1)

\* current-year after the first n rows of a table, each header cell read with D
YearAfter(rows, n, D(_)) ==
    LET bearing == {k \in 1..n :
                      rows[k].th # <<>> /\ Len(D(HeaderLine(rows[k].th[1]))) >= 4}
    IN IF bearing = {} THEN None
       ELSE LET last == CHOOSE k \in bearing : \A m \in bearing : m <= k
            IN Some(SubSeq(D(HeaderLine(rows[last].th[1])), 1, 4))

\* the header cell of the row gives a year
BearsYear(row) == YearAfter(<<row>>, 1, AllDigitsOf) # None
\* the row has no header cell, or one with fewer than 4 digits in all
SuppliesNoYear(row) == row.th = <<>> \/ Len(FilterDigits(row.th[1])) < 4
\* the header cell of the row starts with 4 digits
StartsWithYear(row) ==
    row.th # <<>> /\ Len(Strip(row.th[1])) >= 4 /\ IsDigit(SubSeq(Strip(row.th[1]), 1, 4))

\* C2: within one table, a record of a row whose header cell starts with a year Y
\* carries Y, and a record of a later row carries the year of an earlier record
\* when no row after the earlier one, up to it, has a header cell supplying a year.
C2_RowSpanYearCarry ==
    \A i \in 1..Len(origin) : \A j \in i..Len(origin) :
        origin[i][1] = origin[j][1]
        => LET rows == tables[origin[i][1]].rows
           IN /\ StartsWithYear(rows[origin[i][2]])
                 => movies[i].year = Some(SubSeq(Strip(rows[origin[i][2]].th[1]), 1, 4))
              /\ (\A r \in (origin[i][2] + 1)..origin[j][2] : SuppliesNoYear(rows[r]))
                 => movies[j].year = movies[i].year

\* C2 witness: rows [th "1990", film], [no th, film] gave two records of year 1990
C2_Witness ==
    /\ Len(movies) >= 2
    /\ origin[1] = <<1, 1>> /\ origin[2] = <<1, 2>>
    /\ tables[1].rows[1].th = <<"1990">> /\ tables[1].rows[2].th = <<>>
    /\ movies[1].year = Some("1990") /\ movies[2].year = Some("1990")

\* the record comes from a row before which its own table established no year
BeforeAnyYear(i) ==
    \A r \in 1..origin[i][2] : ~BearsYear(tables[origin[i][1]].rows[r])
\* the tables before table j that established a year
YearTablesBefore(j) ==
    {b \in 1..(j - 1) : \E r \in 1..Len(tables[b].rows) : BearsYear(tables[b].rows[r])}

\* C3 as claimed: a record of a row that precedes every year-bearing header cell of
\* its table carries the last year established in an earlier table.
C3_YearCarriesAcrossBlocks ==
    \A i \in 1..Len(origin) :
        (BeforeAnyYear(i) /\ YearTablesBefore(origin[i][1]) # {})
        => LET b == CHOOSE x \in YearTablesBefore(origin[i][1]) :
                       \A y \in YearTablesBefore(origin[i][1]) : y <= x
           IN movies[i].year = YearAfter(tables[b].rows, Len(tables[b].rows), AllDigitsOf)

\* C3 amended: current-year starts absent in every table, so a record of a row that
\* precedes every year-bearing header cell of its table carries no year, whatever
\* earlier tables established.
C3_YearResetsPerBlock ==
    \A i \in 1..Len(origin) : BeforeAnyYear(i) => movies[i].year = None

\* C3 witness: table 1 gave a record of 1990, table 2 a record with no year
C3_Witness ==
    /\ HasRecord(1, 2) /\ RecordOf(1, 2).year = Some("1990")
    /\ HasRecord(2, 2) /\ RecordOf(2, 2).year = None
    /\ BeforeAnyYear(CHOOSE i \in 1..Len(origin) : origin[i] = <<2, 2>>)

\* the first cell's text, without / ( ), consists of digits
LooksLikeYear(cell) ==
    LET text == CellTextStripped(cell)
    IN /\ \A k \in 1..Len(text) : Char(text, k) \in DigitChars \cup {"/", "(", ")"}
       /\ \E k \in 1..Len(text) : Char(text, k) \in DigitChars

\* the film cell of the claim
ClaimedFilmCell(cells) ==
    IF Len(cells) >= 2 /\ LooksLikeYear(cells[1]) THEN cells[2] ELSE cells[1]

\* the row just processed, and the records it gave
RowJustDone == pc = "rows" /\ ri > 1
LastRow == tables[ti].rows[ri - 1]
LastRowRecords == IF HasRecord(ti, ri - 1) THEN <<RecordOf(ti, ri - 1)>> ELSE <<>>

\* C4: a processed row with data cells gives its record from the second cell exactly
\* when it has 2 or more cells and the first looks like a year, else from the first:
\* the record is titled by the first link of that cell, and there is one whenever
\* that link is an article link with a title.
C4_CellRoleHeuristic ==
    (RowJustDone /\ LastRow.td # <<>>)
    => LET cell == ClaimedFilmCell(LastRow.td)
       IN IF ArticleLink(cell)
          THEN /\ Len(LastRowRecords) = 1
               /\ LastRowRecords[1].title = Strip(FirstLink(cell)[1].text)
          ELSE LastRowRecords = <<>>

\* C4 witness: the row ["1995", link Wings] gave the record titled Wings
C4_Witness ==
    /\ RowJustDone
    /\ LastRow.td = <<<<Txt("1995")>>, FilmOK>>
    /\ Len(LastRowRecords) = 1 /\ LastRowRecords[1].title = "Wings"

WikipediaPrefix == "https://en.wikipedia.org"

\* the target has no "." or ".." path segment
NoDotSegment(href) ==
    \A k \in 1..Len(Split(href, "/")) : Split(href, "/")[k] \notin {".", ".."}

StopPhraseApplies(block) ==
    \/ HeadingStops(block)
    \/ CaptionHasStopPhrase(block)
    \/ (block.rows # <<>> /\ HasAnyStopPhrase(RowText(block.rows[1])))

\* C8 as claimed: while no stop phrase applies, an aggregate table gives nothing and
\* every other table gives its records.
C8_AggregateIsSkipped ==
    Returned =>
        \A j \in 1..Len(tables) :
            (\A b \in 1..j : ~StopPhraseApplies(tables[b]))
            => IF Aggregate(tables[j])
               THEN \A r \in 1..Len(tables[j].rows) : ~HasRecord(j, r)
               ELSE \A r \in 1..Len(tables[j].rows) :
                        GivesRecord(tables[j], r) => HasRecord(j, r)

\* C8 amended: an aggregate table ends the scan as a stop phrase does: neither it nor
\* any later table gives a record.
C8_AggregateTerminates ==
    Returned => \A j \in 1..Len(tables) : Aggregate(tables[j]) => NoRecordFrom(j)

\* C8 witness: table 1 is an aggregate table under no stop phrase, table 2 is a
\* nomination table under no stop phrase, and the scan returned at table 1
C8_Witness ==
    /\ Returned /\ ti = 1 /\ Len(tables) >= 2 /\ movies = <<>>
    /\ Aggregate(tables[1]) /\ ~StopPhraseApplies(tables[1])
    /\ ~Aggregate(tables[2]) /\ ~StopPhraseApplies(tables[2])
    /\ GivesRecord(tables[2], 2)

\* C9 as claimed: a stop phrase in any of the three contexts ends the scan.
C9_SamePhrasesEverywhere ==
    Returned => \A j \in 1..Len(tables) : StopPhraseApplies(tables[j]) => NoRecordFrom(j)

\* a test of the code ends the scan at the table
Ends(block) ==
    \/ HeadingStops(block)
    \/ CaptionHasStopPhrase(block)
    \/ FirstRowHas(block, "production company")
    \/ Aggregate(block)

\* C9 amended: the preceding siblings and the caption are tested against every stop
\* phrase, the first row against "production company" only (and the aggregate
\* pair): these end the scan, and a first row that holds "distributor" alone does not.
C9_FirstRowPhrases ==
    Returned =>
        \A j \in 1..Len(tables) :
            /\ (\/ HeadingStops(tables[j])
                \/ CaptionHasStopPhrase(tables[j])
                \/ FirstRowHas(tables[j], "production company"))
               => NoRecordFrom(j)
            /\ (FirstRowHas(tables[j], "distributor") /\ \A b \in 1..j : ~Ends(tables[b]))
               => \A r \in 1..Len(tables[j].rows) :
                     GivesRecord(tables[j], r) => HasRecord(j, r)

\* C9 witness: the first row of table 1 holds "distributor" and the table gave its
\* record; the caption of table 2 holds it and the scan returned there
C9_Witness ==
    /\ Returned /\ ti = 2 /\ Len(tables) >= 2
    /\ FirstRowHas(tables[1], "distributor") /\ HasRecord(1, 2)
    /\ CaptionHasStopPhrase(tables[2]) /\ GivesRecord(tables[2], 2)
    /\ NoRecordFrom(2)

\* C10 as claimed: current-year is read from the leading run of digits of the
\* header cell's first line.
C10_LeadingDigitsYear ==
    pc = "rows" => current_year = YearAfter(tables[ti].rows, ri - 1, LeadingDigitsOf)

\* C10 amended: current-year is read from all the digits of the header cell's first
\* line, wherever they stand: with 4 or more of them it becomes the first 4,
\* otherwise it is left unchanged.
C10_AllDigitsYear ==
    pc = "rows" => current_year = YearAfter(tables[ti].rows, ri - 1, AllDigitsOf)

\* C10 witness: the header "20 (83rd)" set the year 2083 and the header "199" after
\* it left it unchanged
C10_Witness ==
    /\ pc = "rows" /\ ri = 3
    /\ tables[ti].rows[1].th = <<"20 (83rd)">>
    /\ tables[ti].rows[2].th = <<"199">>
    /\ current_year = Some("2083")

\* the section extractor has returned, having found a heading
SectionReturned == spc = "done" /\ plot_section # None
MatchedHeading == ElemAt(soup, plot_section[1])
\* the siblings that follow the matched heading
Following ==
    SubSeq(SiblingsOf(soup, plot_section[1]), IndexOf(plot_section[1]) + 1,
           Len(SiblingsOf(soup, plot_section[1])))

\* a heading's level: 2 or 3 for a bare heading or a heading wrapper, else 0
Level(e) ==
    IF e.name = "h2" THEN 2
    ELSE IF e.name = "h3" THEN 3
    ELSE IF e.name = "div" /\ "mw-heading" \in e.class
         THEN (IF \E k \in 1..Len(e.children) : e.children[k].name = "h2" THEN 2
               ELSE IF \E k \in 1..Len(e.children) : e.children[k].name = "h3" THEN 3
               ELSE 0)
    ELSE 0

\* the elements of a sequence before the first heading of level 2..L
BeforeHeading(elems, L) ==
    LET stop == {k \in 1..Len(elems) : Level(elems[k]) \in 2..L}
    IN IF stop = {} THEN elems
       ELSE SubSeq(elems, 1, (CHOOSE k \in stop : \A m \in stop : k <= m) - 1)

\* the non-empty texts of the paragraphs of a sequence, in order
RECURSIVE ParagraphTexts(_)
ParagraphTexts(elems) ==
    IF elems = <<>> THEN <<>>
    ELSE (IF Head(elems).name = "p" /\ ElemTextSeparated(Head(elems)) # ""
          THEN <<ElemTextSeparated(Head(elems))>> ELSE <<>>)
         \o ParagraphTexts(Tail(elems))

\* C6: the result is the non-empty texts of the paragraphs that follow the matched
\* heading before the first top-level boundary (a bare h2 or a heading wrapper that
\* holds an h2), in order, joined by single spaces; None when there is none.
C6_SectionBoundary ==
    SectionReturned
    => LET texts == ParagraphTexts(BeforeHeading(Following, 2))
       IN result = IF texts = <<>> THEN None ELSE Some(Join(texts, " "))

\* C6 witness: Plot, a paragraph, a level-3 heading, a paragraph, the heading Cast
C6_Witness ==
    /\ SectionReturned
    /\ soup = <<Leaf("h2", <<"Plot">>), P1, H3Cast, P2, DivH2Cast>>
    /\ result = Some("A b c")

\* C7 as claimed: no paragraph of the result follows a later sibling heading of the
\* matched heading's level or higher (plot_text holds the paragraphs in sibling
\* order, so it holds no more than those before that heading).
C7_SectionEndsAtSameLevel ==
    (SectionReturned /\ Level(MatchedHeading) \in {2, 3})
    => Len(plot_text) <= Len(ParagraphTexts(BeforeHeading(Following, Level(MatchedHeading))))

\* C7 amended: whatever the level of the matched heading, the section extends to the
\* next level-2 heading: the result holds no paragraph that follows it, and holds
\* every non-empty paragraph before it, those after a level-3 heading included.
C7_SectionEndsAtLevel2 ==
    (SectionReturned /\ Level(MatchedHeading) \in {2, 3})
    => plot_text = ParagraphTexts(BeforeHeading(Following, 2))

\* C7 witness: the level-3 heading Plot summary, a paragraph, the level-3 heading
\* Cast, a paragraph: both paragraphs are returned
C7_Witness ==
    /\ SectionReturned
    /\ soup = <<Leaf("h3", <<"Plot summary">>), P1, H3Cast, P2>>
    /\ result = Some("A b c")

=============================================================================
